---- MODULE Spec2Model ----
(***************************************************************************)
(* lsst::pex::exceptions::Exception (src/src/Exception.cc): an exception   *)
(* object carrying a type string and a traceback of tracepoints, with its  *)
(* text rendering (addToStream, what, operator<<), its accessors and its   *)
(* polymorphic copy (clone).                                               *)
(*                                                                         *)
(* Text is a TLA+ string; streams are records holding the text written so  *)
(* far together with the iostate and exception mask of a std::ostream.     *)
(***************************************************************************)
EXTENDS Integers, Sequences, FiniteSets, TLC

VARIABLES heap, hist, clones, buffer, held, lastCall

vars == <<heap, hist, clones, buffer, held, lastCall>>

(***************************************************************************)
(* Bounds of the model.                                                    *)
(***************************************************************************)
\* number of Exception objects alive at the same time
MaxObjects == 2
\* longest traceback an object is grown to
MaxTrace == 2

Addrs == 1..MaxObjects

(***************************************************************************)
(* Inputs.                                                                 *)
(***************************************************************************)
\* (file, line, func, message) as the macros pass them to the constructor
\* and to addMessage
TracepointArgs ==
    { <<"a.cc", 10, "f", "boom">>,
      <<"b.cc", 20, "g", "context">> }

\* the calls whose reports are printed: one has an empty message
RenderArgs ==
    { <<"a.cc", 10, "f", "boom">>,
      <<"c.cc", 305, "h", "">> }

\* what is thrown: <<class, type string>>, the base class and one class
\* derived from it
Throwables == { <<"Exception", "Exception">>, <<"NotFoundError", "NotFoundError">> }

NoArgs == <<"", 0, "", "">>

(***************************************************************************)
(* Tracepoint                                                              *)
(***************************************************************************)
Tracepoint(file, line, func, message) ==
    [_file |-> file, _line |-> line, _func |-> func, _msg |-> message]

TracepointOf(args) == Tracepoint(args[1], args[2], args[3], args[4])

(***************************************************************************)
(* Objects.  heap[a] is the Exception object stored at address a.          *)
(***************************************************************************)
NoObj == [live |-> FALSE, cls |-> "", _type |-> "", _traceback |-> <<>>]

NoHist == [hasCtor |-> FALSE, type |-> "", ctor |-> NoArgs, adds |-> <<>>]

Live == {a \in Addrs : heap[a].live}

Free == {a \in Addrs : ~heap[a].live}

\* the storage a new-expression or a throw obtains
FreshAddr == CHOOSE a \in Free : \A b \in Free : a <= b

(***************************************************************************)
(* Streams.  content: the characters written; bad: the stream's iostate is *)
(* not good; exc: the exception mask makes a failed write raise            *)
(* ios_base::failure; lim/room: the destination accepts room more writes   *)
(* and then fails (lim = FALSE: it never fails).                           *)
(***************************************************************************)
NoStream == [content |-> "", bad |-> FALSE, exc |-> FALSE, lim |-> FALSE, room |-> 0]

Digit(d) ==
    CASE d = 0 -> "0" [] d = 1 -> "1" [] d = 2 -> "2" [] d = 3 -> "3"
      [] d = 4 -> "4" [] d = 5 -> "5" [] d = 6 -> "6" [] d = 7 -> "7"
      [] d = 8 -> "8" [] d = 9 -> "9"

RECURSIVE Decimal(_)
\* operator<< of an unsigned value: its decimal digits
Decimal(n) == IF n < 10 THEN Digit(n) ELSE Decimal(n \div 10) \o Digit(n % 10)

\* operator<< of an int
FormatInt(n) == IF n < 0 THEN "-" \o Decimal(0 - n) ELSE Decimal(n)

RECURSIVE WriteAll(_, _)
\* the chain of << insertions of pieces ps into stream s, in order; a failed
\* insertion sets the error state and either raises (mask set) or is skipped
WriteAll(s, ps) ==
    IF ps = <<>> THEN [stream |-> s, raised |-> FALSE]
    ELSE IF s.bad \/ (s.lim /\ s.room = 0)
         THEN LET f == [s EXCEPT !.bad = TRUE]
              IN  IF s.exc THEN [stream |-> f, raised |-> TRUE]
                  ELSE WriteAll(f, Tail(ps))
         ELSE WriteAll([s EXCEPT !.content = @ \o Head(ps),
                                 !.room = IF s.lim THEN @ - 1 ELSE @],
                       Tail(ps))

(***************************************************************************)
(* The member functions, as functions of the object.                       *)
(***************************************************************************)
\* variant of PushBack: the tracepoint is inserted at the front
PushFront(tb, t) == <<t>> \o tb

\* _traceback.push_back(t)
PushBack(tb, t) == Append(tb, t)

\* variant of the constructor: the tracepoint is built from the arguments in
\* the wrong order
ExceptionSwapsArgs(cls, type, args) ==
    [live |-> TRUE, cls |-> cls, _type |-> type,
     _traceback |-> PushBack(<<>>, Tracepoint(args[3], args[2], args[1], args[4]))]

\* Exception::Exception(type, file, line, func, message)
Exception(cls, type, args) ==
    [live |-> TRUE, cls |-> cls, _type |-> type,
     _traceback |-> PushBack(<<>>, TracepointOf(args))]

\* variant of addMessage: the call also overwrites _type
addMessageSetsType(obj, args) ==
    [obj EXCEPT !._traceback = PushBack(@, TracepointOf(args)), !._type = args[3]]

\* Exception::addMessage(file, line, func, message)
addMessage(obj, args) ==
    [obj EXCEPT !._traceback = PushBack(@, TracepointOf(args))]

\* Exception::getTraceback()
getTraceback(obj) == obj._traceback

\* Exception::getType()
getType(obj) == obj._type

RECURSIVE RethrownOneBased(_, _)
\* variant of the loop: the rethrow lines are numbered from their own count
RethrownOneBased(tb, i) ==
    IF i < Len(tb)
    THEN << Decimal(i - 1), ": Rethrown at ", tb[i + 1]._file, ":",
            FormatInt(tb[i + 1]._line), " in ", tb[i + 1]._func, "\n",
            Decimal(i - 1), ": Message: ", tb[i + 1]._msg, "\n" >>
         \o RethrownOneBased(tb, i + 1)
    ELSE <<>>

RECURSIVE Rethrown(_, _)
\* the loop of addToStream from index i on (C++ indices start at 0)
Rethrown(tb, i) ==
    IF i < Len(tb)
    THEN << Decimal(i), ": Rethrown at ", tb[i + 1]._file, ":",
            FormatInt(tb[i + 1]._line), " in ", tb[i + 1]._func, "\n",
            Decimal(i), ": Message: ", tb[i + 1]._msg, "\n" >>
         \o Rethrown(tb, i + 1)
    ELSE <<>>

\* variant of Insertions without the test of the size: _traceback[0] is
\* read whether or not it exists
InsertionsUnguarded(obj) ==
    LET tb == obj._traceback
        t0 == IF Len(tb) > 0 THEN tb[1] ELSE Tracepoint("?", 0, "?", "?")
    IN  << "0: ", obj._type, " thrown at ", t0._file, ":",
           FormatInt(t0._line), " in ", t0._func, "\n",
           "0: Message: ", t0._msg, "\n" >>
        \o Rethrown(tb, 1)

\* the values addToStream inserts into the stream, in order
Insertions(obj) ==
    LET tb == obj._traceback
    IN  IF Len(tb) > 0
        THEN << "0: ", obj._type, " thrown at ", tb[1]._file, ":",
                FormatInt(tb[1]._line), " in ", tb[1]._func, "\n",
                "0: Message: ", tb[1]._msg, "\n" >>
             \o Rethrown(tb, 1)
        ELSE <<>>

\* Exception::addToStream(stream): the stream afterwards, and whether an
\* exception left the function
addToStream(obj, s) == WriteAll(s, Insertions(obj))

\* variant of what() without the catch clause
whatNoCatch(obj, buf, fault) ==
    LET s == [NoStream EXCEPT !.lim = fault.lim, !.room = fault.room]
        r == addToStream(obj, s)
    IN  IF fault.throws \/ r.raised
        THEN [raised |-> TRUE, ret |-> "", buffer |-> buf, text |-> ""]
        ELSE [raised |-> FALSE, ret |-> "buffer", buffer |-> r.stream.content,
              text |-> r.stream.content]

\* variant of what() that returns the buffer as it was before the assignment
whatStaleBuffer(obj, buf, fault) ==
    LET s == [NoStream EXCEPT !.lim = fault.lim, !.room = fault.room]
        r == addToStream(obj, s)
    IN  IF fault.throws \/ r.raised
        THEN [raised |-> FALSE, ret |-> "_type", buffer |-> buf,
              text |-> obj._type]
        ELSE [raised |-> FALSE, ret |-> "buffer", buffer |-> r.stream.content,
              text |-> buf]

\* Exception::what(): fault.throws says that something inside the try block
\* throws (std::bad_alloc from the string stream, from str() or from the
\* assignment to the buffer); fault.lim/room make an insertion into the
\* local string stream fail.  buf is the static buffer before the call.
what(obj, buf, fault) ==
    LET s == [NoStream EXCEPT !.lim = fault.lim, !.room = fault.room]
        r == addToStream(obj, s)
    IN  IF fault.throws \/ r.raised
        THEN [raised |-> FALSE, ret |-> "_type", buffer |-> buf,
              text |-> obj._type]
        ELSE [raised |-> FALSE, ret |-> "buffer", buffer |-> r.stream.content,
              text |-> r.stream.content]

\* Exception::ctype()
ExceptionCtype == "lsst::pex::exceptions::Exception *"

\* ctype() of a class declared with LSST_EXCEPTION_TYPE
DerivedCtype(obj) == "lsst::pex::exceptions::" \o obj.cls \o " *"

\* virtual dispatch of ctype()
ctype(obj) == IF obj.cls = "Exception" THEN ExceptionCtype ELSE DerivedCtype(obj)

\* variant of clone(): it returns this instead of a new object
ExceptionCloneReturnsThis(this, fresh) ==
    [addr |-> this,
     obj  |-> [live |-> TRUE, cls |-> "Exception", _type |-> heap[this]._type,
               _traceback |-> heap[this]._traceback]]

\* variant of clone(): the copy is constructed anew from the first tracepoint
ExceptionCloneFirstOnly(this, fresh) ==
    [addr |-> fresh,
     obj  |-> [live |-> TRUE, cls |-> "Exception", _type |-> heap[this]._type,
               _traceback |-> SubSeq(heap[this]._traceback, 1, 1)]]

\* Exception::clone(): new Exception(*this), at the address new returns
ExceptionClone(this, fresh) ==
    [addr |-> fresh,
     obj  |-> [live |-> TRUE, cls |-> "Exception", _type |-> heap[this]._type,
               _traceback |-> heap[this]._traceback]]

\* clone() of a class declared with LSST_EXCEPTION_TYPE: new t(*this)
DerivedClone(this, fresh) == [addr |-> fresh, obj |-> heap[this]]

\* virtual dispatch of clone()
clone(this, fresh) ==
    IF heap[this].cls = "Exception" THEN ExceptionClone(this, fresh)
    ELSE DerivedClone(this, fresh)

(***************************************************************************)
(* State.                                                                  *)
(*   heap     the Exception objects                                        *)
(*   hist     per object, the arguments of its constructor call and of its *)
(*            addMessage calls so far (history)                            *)
(*   clones   pairs <<a, b>>: clone() on a returned b, both still alive    *)
(*   buffer   the function-static std::string of what()                    *)
(*   held     a char const* that a caller kept from an earlier what()      *)
(*   lastCall the latest call: its arguments and what it returned          *)
(***************************************************************************)
NoCall ==
    [op |-> "none", a |-> 0, b |-> 0, cls |-> "", type |-> "", args |-> NoArgs,
     tb |-> <<>>, before |-> NoStream, after |-> NoStream, raised |-> FALSE,
     thrown |-> FALSE, ret |-> "", text |-> ""]

NoHeld == [valid |-> FALSE, target |-> "", expect |-> "", seen |-> ""]

\* what a read through a pointer into freed storage yields
Dangling == "<freed>"

Init ==
    /\ heap = [a \in Addrs |-> NoObj]
    /\ hist = [a \in Addrs |-> NoHist]
    /\ clones = {}
    /\ buffer = ""
    /\ held = NoHeld
    /\ lastCall = NoCall

\* throw an exception of class cls: the object is constructed in fresh storage
New(cls, type, args) ==
    /\ Free # {}
    /\ LET a == FreshAddr
       IN  /\ heap' = [heap EXCEPT ![a] = Exception(cls, type, args)]
           /\ hist' = [hist EXCEPT ![a] = [hasCtor |-> TRUE, type |-> type, ctor |-> args,
                                           adds |-> <<>>]]
           /\ lastCall' = [NoCall EXCEPT !.op = "new", !.a = a, !.cls = cls,
                                         !.type = type, !.args = args]
    /\ UNCHANGED <<clones, buffer, held>>

\* the exception is handled and destroyed
Destroy(a) ==
    /\ heap[a].live
    /\ heap' = [heap EXCEPT ![a] = NoObj]
    /\ hist' = [hist EXCEPT ![a] = NoHist]
    /\ clones' = {p \in clones : p[1] # a /\ p[2] # a}
    /\ lastCall' = [NoCall EXCEPT !.op = "delete", !.a = a]
    /\ UNCHANGED <<buffer, held>>

AddMessage(a, args) ==
    /\ heap[a].live
    /\ Len(heap[a]._traceback) < MaxTrace
    /\ heap' = [heap EXCEPT ![a] = addMessage(@, args)]
    /\ hist' = [hist EXCEPT ![a].adds = Append(@, args)]
    /\ lastCall' = [NoCall EXCEPT !.op = "addMessage", !.a = a, !.args = args]
    /\ UNCHANGED <<clones, buffer, held>>

GetTraceback(a) ==
    /\ heap[a].live
    /\ lastCall' = [NoCall EXCEPT !.op = "getTraceback", !.a = a,
                                  !.tb = getTraceback(heap[a])]
    /\ UNCHANGED <<heap, hist, clones, buffer, held>>

GetType(a) ==
    /\ heap[a].live
    /\ lastCall' = [NoCall EXCEPT !.op = "getType", !.a = a, !.ret = "_type",
                                  !.text = getType(heap[a])]
    /\ UNCHANGED <<heap, hist, clones, buffer, held>>

Clone(a) ==
    /\ heap[a].live
    /\ Free # {}
    /\ LET c == clone(a, FreshAddr)
       IN  /\ heap' = [heap EXCEPT ![c.addr] = c.obj]
           /\ hist' = [hist EXCEPT ![c.addr] = hist[a]]
           /\ clones' = clones \cup {<<a, c.addr>>}
           /\ lastCall' = [NoCall EXCEPT !.op = "clone", !.a = a, !.b = c.addr]
    /\ UNCHANGED <<buffer, held>>

AddToStream(a, s) ==
    /\ heap[a].live
    /\ LET r == addToStream(heap[a], s)
       IN  lastCall' = [NoCall EXCEPT !.op = "addToStream", !.a = a, !.before = s,
                                      !.after = r.stream, !.raised = r.raised]
    /\ UNCHANGED <<heap, hist, clones, buffer, held>>

\* operator<<(stream, e)
OperatorShift(a, s) ==
    /\ heap[a].live
    /\ LET r == addToStream(heap[a], s)
       IN  lastCall' = [NoCall EXCEPT !.op = "operator<<", !.a = a, !.before = s,
                                      !.after = r.stream, !.raised = r.raised]
    /\ UNCHANGED <<heap, hist, clones, buffer, held>>

\* e.what(); keep: the caller keeps the returned pointer for later use.
\* Assigning to the static buffer invalidates a pointer obtained from it
\* before: a read through it finds the new characters (assignment in place),
\* or freed storage that still has the old characters or no longer has them
\* (the string took other storage).
What(a, fault, keep) ==
    /\ heap[a].live
    /\ LET r == what(heap[a], buffer, fault)
       IN  /\ buffer' = r.buffer
           /\ lastCall' = [NoCall EXCEPT !.op = "what", !.a = a, !.raised = r.raised,
                                         !.thrown = fault.throws, !.ret = r.ret,
                                         !.before = [NoStream EXCEPT !.lim = fault.lim,
                                                                     !.room = fault.room],
                                         !.text = r.text]
           /\ IF keep
              THEN held' = [valid |-> TRUE, target |-> r.ret,
                            expect |-> r.text, seen |-> r.text]
              ELSE IF held.valid /\ held.target = "buffer" /\ r.ret = "buffer"
                   THEN \E t \in {r.buffer, held.seen, Dangling} :
                            held' = [held EXCEPT !.seen = t]
                   ELSE held' = held
    /\ UNCHANGED <<heap, hist, clones>>

\* construction that bypasses Exception::Exception: nothing is pushed onto
\* the traceback
NewBypass(cls, type) ==
    /\ Free # {}
    /\ LET a == FreshAddr
       IN  /\ heap' = [heap EXCEPT ![a] = [live |-> TRUE, cls |-> cls, _type |-> type,
                                           _traceback |-> <<>>]]
           /\ hist' = [hist EXCEPT ![a] = NoHist]
           /\ lastCall' = [NoCall EXCEPT !.op = "bypass", !.a = a, !.cls = cls,
                                         !.type = type]
    /\ UNCHANGED <<clones, buffer, held>>

(***************************************************************************)
(* Inputs of the calls.                                                    *)
(***************************************************************************)
\* a destination in good state that never fails
GoodStream(c) == [content |-> c, bad |-> FALSE, exc |-> FALSE, lim |-> FALSE, room |-> 0]

\* the destinations handed to addToStream and operator<<
DestStreams ==
    { GoodStream(""), GoodStream("log: ") }
    \cup { [content |-> "", bad |-> FALSE, exc |-> e, lim |-> TRUE, room |-> r] :
              e \in BOOLEAN, r \in {0, 4} }

NoFault == [throws |-> FALSE, lim |-> FALSE, room |-> 0]

\* the failures inside what()
WhatFaults ==
    { NoFault,
      [throws |-> TRUE, lim |-> FALSE, room |-> 0],
      [throws |-> FALSE, lim |-> TRUE, room |-> 4] }

(***************************************************************************)
(* Spec: an exception is thrown, annotated, inspected, printed, copied and *)
(* destroyed; its copies live on and are treated the same way.             *)
(***************************************************************************)
Next ==
    \/ \E t \in Throwables : Live = {} /\ New(t[1], t[2], <<"a.cc", 10, "f", "boom">>)
    \/ \E a \in Addrs : Destroy(a)
    \/ \E a \in Addrs, args \in TracepointArgs : AddMessage(a, args)
    \/ \E a \in Addrs : GetTraceback(a)
    \/ \E a \in Addrs : GetType(a)
    \/ \E a \in Addrs : Clone(a)
    \/ \E a \in Addrs : AddToStream(a, GoodStream(""))

Spec == Init /\ [][Next]_vars

(***************************************************************************)
(* SpecRender: one exception in flight, printed to destinations in every   *)
(* condition and with every failure inside what().                         *)
(***************************************************************************)
NextRender ==
    \/ \E t \in Throwables, args \in RenderArgs : Live = {} /\ New(t[1], t[2], args)
    \/ \E a \in Addrs : Destroy(a)
    \/ \E a \in Addrs, args \in RenderArgs : AddMessage(a, args)
    \/ \E a \in Addrs, s \in DestStreams : AddToStream(a, s)
    \/ \E a \in Addrs, s \in DestStreams : OperatorShift(a, s)
    \/ \E a \in Addrs, f \in WhatFaults : What(a, f, FALSE)

SpecRender == Init /\ [][NextRender]_vars

(***************************************************************************)
(* SpecAbnormal: as SpecRender, and the exception may be an object whose   *)
(* construction bypassed the constructor.                                  *)
(***************************************************************************)
NextAbnormal ==
    \/ \E t \in Throwables : Live = {} /\ NewBypass(t[1], t[2])
    \/ \E t \in Throwables, args \in TracepointArgs : Live = {} /\ New(t[1], t[2], args)
    \/ \E a \in Addrs : Destroy(a)
    \/ \E a \in Addrs, args \in TracepointArgs : AddMessage(a, args)
    \/ \E a \in Addrs, s \in DestStreams : AddToStream(a, s)
    \/ \E a \in Addrs, s \in DestStreams : OperatorShift(a, s)
    \/ \E a \in Addrs, f \in WhatFaults : What(a, f, FALSE)

SpecAbnormal == Init /\ [][NextAbnormal]_vars

(***************************************************************************)
(* SpecStatic: callers keep the pointers what() returns.                   *)
(***************************************************************************)
NextStatic ==
    \/ \E args \in TracepointArgs : New("Exception", "Exception", args)
    \/ \E a \in Addrs : Destroy(a)
    \/ \E a \in Addrs : AddMessage(a, <<"b.cc", 20, "g", "context">>)
    \/ \E a \in Addrs, keep \in BOOLEAN : What(a, NoFault, keep)

SpecStatic == Init /\ [][NextStatic]_vars

(***************************************************************************)
(* Properties.                                                             *)
(***************************************************************************)
\* the tracepoint a call with arguments args records
Recorded(args) == [_file |-> args[1], _line |-> args[2], _func |-> args[3], _msg |-> args[4]]

IsPrefix(s, t) == Len(s) <= Len(t) /\ \A i \in 1..Len(s) : t[i] = s[i]

C1_Traceback ==
    \A a \in Live :
        LET tb == getTraceback(heap[a])
            N  == Len(hist[a].adds)
        IN  /\ Len(tb) = N + 1
            /\ tb[1] = Recorded(hist[a].ctor)
            /\ \A k \in 1..N : tb[k + 1] = Recorded(hist[a].adds[k])

C1_Step ==
    \A a \in Addrs :
        heap[a].live /\ heap'[a].live => IsPrefix(heap[a]._traceback, heap'[a]._traceback)

\* C1: after N addMessage calls on an exception (interleaved with the other
\* calls) its traceback has N+1 entries: the constructor's tracepoint first,
\* then the tracepoint of each addMessage call in call order; and no call
\* changes, moves or removes an entry that was there before it.
C1_AppendOnly == [](C1_Traceback) /\ [][C1_Step]_vars

C1_Witness ==
    /\ lastCall.op = "addMessage"
    /\ Len(hist[lastCall.a].adds) = MaxTrace - 1
    /\ hist[lastCall.a].adds[1] # hist[lastCall.a].ctor
    /\ \E p \in clones : p[2] = lastCall.a

\* C2: the constructor leaves a traceback of exactly one entry, whose file,
\* line, function and message are the arguments, and getType() returns the
\* type given to it.
C2_Constructor ==
    lastCall.op = "new" =>
        LET o == heap[lastCall.a]
        IN  /\ Len(getTraceback(o)) = 1
            /\ getTraceback(o)[1]._file = lastCall.args[1]
            /\ getTraceback(o)[1]._line = lastCall.args[2]
            /\ getTraceback(o)[1]._func = lastCall.args[3]
            /\ getTraceback(o)[1]._msg = lastCall.args[4]
            /\ getType(o) = lastCall.type

C2_Witness ==
    /\ lastCall.op = "new"
    /\ lastCall.cls = "NotFoundError"
    /\ lastCall.args = <<"c.cc", 305, "h", "">>
    /\ heap[lastCall.a].live

C3_Step ==
    \A p \in clones :
        /\ lastCall'.op = "addMessage" /\ lastCall'.a = p[1] => heap'[p[2]] = heap[p[2]]
        /\ lastCall'.op = "addMessage" /\ lastCall'.a = p[2] => heap'[p[1]] = heap[p[1]]

\* C3: after clone(), addMessage on the original leaves the copy's traceback
\* and type unchanged, and addMessage on the copy leaves the original's
\* unchanged.
C3_Independent == [][C3_Step]_vars

C3_Witness ==
    /\ lastCall.op = "addMessage"
    /\ \E p \in clones :
          /\ lastCall.a \in {p[1], p[2]}
          /\ Len(heap[p[1]]._traceback) # Len(heap[p[2]]._traceback)

ReportLine(o, j) ==
    LET i == (j - 1) \div 2
        t == o._traceback[i + 1]
    IN  IF j % 2 = 1
        THEN (IF i = 0 THEN "0: " \o o._type \o " thrown at "
                       ELSE ToString(i) \o ": Rethrown at ")
             \o t._file \o ":" \o ToString(t._line) \o " in " \o t._func
        ELSE ToString(i) \o ": Message: " \o t._msg

RECURSIVE ReportUpTo(_, _)
\* the first n lines of the report, each ended by a newline
ReportUpTo(o, n) ==
    IF n = 0 THEN "" ELSE ReportUpTo(o, n - 1) \o ReportLine(o, n) \o "\n"

Report(o) == ReportUpTo(o, 2 * Len(o._traceback))

\* the destination never fails
Reliable(s) == ~s.bad /\ ~s.lim

C6_SelfContained == held.valid => held.seen = held.expect

\* what() met a failure: something threw inside it, or an insertion into its
\* string stream failed
WhatFailed ==
    \/ lastCall.thrown
    \/ lastCall.before.lim /\ Len(Insertions(heap[lastCall.a])) > lastCall.before.room

C8_WhatIsReport ==
    /\ lastCall.op = "what" /\ ~WhatFailed =>
          /\ lastCall.text = addToStream(heap[lastCall.a], GoodStream("")).stream.content
          /\ lastCall.ret = "buffer"
    /\ lastCall.op = "operator<<" /\ Reliable(lastCall.before) =>
          lastCall.after.content =
              lastCall.before.content
              \o addToStream(heap[lastCall.a], GoodStream("")).stream.content

C8_Witness ==
    /\ lastCall.op = "what"
    /\ ~WhatFailed
    /\ Len(heap[lastCall.a]._traceback) = MaxTrace
    /\ buffer = lastCall.text

\* C9: getType() returns the type given to the constructor, whatever calls
\* the object has received since.
C9_TypeImmutable ==
    /\ \A a \in Live : getType(heap[a]) = hist[a].type
    /\ lastCall.op = "getType" => lastCall.text = hist[lastCall.a].type

C9_Witness ==
    /\ lastCall.op = "getType"
    /\ Len(hist[lastCall.a].adds) = MaxTrace - 1
    /\ \E p \in clones : p[2] = lastCall.a

====
